---- MODULE Spec2Model ----
(***************************************************************************)
(* Exercise Synchronization Engine of the CS Learning Platform extension:  *)
(* the Materializer (WorkspaceManager.createExerciseFile), the debounce    *)
(* scheduler and push coordinator (FileSyncManager), the remote answer     *)
(* store (FirebaseService.getStudentAnswer / saveStudentAnswer) and the    *)
(* editor events that drive them.                                          *)
(*                                                                         *)
(* All text (paths, titles, languages, file contents) is a sequence of     *)
(* one-character strings, so that lower-casing, slugs and templates are    *)
(* computed character by character as the code computes them.              *)
(***************************************************************************)
EXTENDS Integers, Sequences, FiniteSets, TLC

VARIABLES
  lessons,           \* the lessons of the Catalog the course tree offers
  spellings,         \* the spellings of paths under which editor events arrive
  typed,             \* the contents the user gives a file
  observe,           \* which outcomes the history variables record
  userId,            \* globalState 'userId' (FirebaseService.getUserId)
  files,             \* local workspace: path -> content (absent paths are not in the domain)
  records,           \* remote 'studentAnswers' collection, a sequence of documents
  fileWatcher,       \* FileSyncManager.fileWatcher: "null" or the courseId its callback captured
  pendingSaves,      \* FileSyncManager.pendingSaves: filePath -> timer handle
  syncInProgress,    \* FileSyncManager.syncInProgress: set of filePath
  fileToSectionMap,  \* FileSyncManager.fileToSectionMap: lower-cased path -> Section
  trackedLessons,    \* FileSyncManager.trackedLessons
  currentCourseId,   \* FileSyncManager.currentCourseId
  timers,            \* live setTimeout handles (scheduled, neither fired nor cleared), oldest first
  pushes,            \* syncFile invocations suspended at an await
  currentWorkspace,  \* WorkspaceManager.currentWorkspace: "null" or the lessonId it holds
  commands,          \* openLesson / openExercise command handlers suspended at an await
  metrics,           \* InputMetricsTracker.metrics: lower-cased path -> FileMetrics
  tally,             \* history: per file, the changes observed and the changes snapshots have counted
  burst,             \* history: per path, the pushes the current burst of changes has started
  last               \* history: the handler that ran last and what it decided

vars == <<lessons, spellings, typed, observe, userId, files, records, fileWatcher, pendingSaves, syncInProgress,
          fileToSectionMap, trackedLessons, currentCourseId, timers, pushes,
          currentWorkspace, commands, metrics, tally, burst, last>>

syncVars == <<fileWatcher, pendingSaves, syncInProgress, fileToSectionMap,
              trackedLessons, currentCourseId, timers>>

----------------------------------------------------------------------------
(* Bounds of the model *)

\* timer handles that can exist at once (live or still referenced by pendingSaves)
MaxTimers == 2
\* syncFile invocations that can be suspended at once
MaxPushes == 2
\* command handlers that can be suspended at once
MaxCommands == 1
MaxChanges == 5     \* content changes the tracker observes per file
MaxBatch == 2       \* content changes one change event carries
MaxClock == 2       \* readings of the wall clock
MaxTextLen == 3     \* length of the short inserted texts
MaxOrderIndex == 11 \* order index of a section

----------------------------------------------------------------------------
(* Text *)

UpperChars == <<"A","B","C","D","E","F","G","H","I","J","K","L","M",
                "N","O","P","Q","R","S","T","U","V","W","X","Y","Z">>
LowerChars == <<"a","b","c","d","e","f","g","h","i","j","k","l","m",
                "n","o","p","q","r","s","t","u","v","w","x","y","z">>
DigitChars == <<"0","1","2","3","4","5","6","7","8","9">>

InSeq(c, s) == \E i \in 1..Len(s) : s[i] = c

LowerOf == [c \in {UpperChars[i] : i \in 1..26} |->
              LowerChars[CHOOSE i \in 1..26 : UpperChars[i] = c]]

ToLowerChar(c) == IF c \in DOMAIN LowerOf THEN LowerOf[c] ELSE c

\* String.prototype.toLowerCase
ToLowerCase(s) == [i \in 1..Len(s) |-> ToLowerChar(s[i])]

\* the character class [a-z0-9]
AlnumChars == {LowerChars[i] : i \in 1..26} \cup {DigitChars[i] : i \in 1..10}
IsAlnum(c) == c \in AlnumChars

\* .replace(/[^a-z0-9]+/g, '_'): every maximal run of other characters becomes one '_'
RECURSIVE CollapseRuns(_, _)
CollapseRuns(s, acc) ==
  IF s = <<>> THEN acc
  ELSE IF IsAlnum(Head(s)) THEN CollapseRuns(Tail(s), Append(acc, Head(s)))
  ELSE IF acc # <<>> /\ ~IsAlnum(acc[Len(acc)]) THEN CollapseRuns(Tail(s), acc)
  ELSE CollapseRuns(Tail(s), Append(acc, "_"))

\* .replace(/^_+|_+$/g, '')
RECURSIVE TrimLeft(_)
TrimLeft(s) == IF s # <<>> /\ Head(s) = "_" THEN TrimLeft(Tail(s)) ELSE s
RECURSIVE TrimRight(_)
TrimRight(s) ==
  IF s # <<>> /\ s[Len(s)] = "_" THEN TrimRight(SubSeq(s, 1, Len(s) - 1)) ELSE s

sanitizeFileName(name) == TrimRight(TrimLeft(CollapseRuns(ToLowerCase(name), <<>>)))

\* the language names of the two lookup tables
Python     == <<"p","y","t","h","o","n">>
Java       == <<"j","a","v","a">>
CSharp     == <<"c","s","h","a","r","p">>
TypeScript == <<"t","y","p","e","s","c","r","i","p","t">>
JavaScript == <<"j","a","v","a","s","c","r","i","p","t">>

\* Names every object literal inherits from Object.prototype and that are
\* their own lower-casing: table['constructor'] and table['__proto__'] are
\* defined (and truthy) although the literal does not list them.
Constructor == <<"c","o","n","s","t","r","u","c","t","o","r">>
Proto       == <<"_","_","p","r","o","t","o","_","_">>
\* what a template literal makes of those two values
ObjectFunctionText == <<"f","u","n","c","t","i","o","n"," ","O","b","j","e","c","t","(",")",
                        " ","{"," ","[","n","a","t","i","v","e"," ","c","o","d","e","]"," ","}">>
ObjectObjectText == <<"[","o","b","j","e","c","t"," ","O","b","j","e","c","t","]">>

\* extensions[language.toLowerCase()] || 'txt'
getFileExtension(language) ==
  LET key == ToLowerCase(language) IN
  CASE key = Python      -> <<"p","y">>
    [] key = Java        -> <<"j","a","v","a">>
    [] key = CSharp      -> <<"c","s">>
    [] key = TypeScript  -> <<"t","s">>
    [] key = JavaScript  -> <<"j","s">>
    [] key = Constructor -> ObjectFunctionText
    [] key = Proto       -> ObjectObjectText
    [] OTHER             -> <<"t","x","t">>

\* syntax[language.toLowerCase()] || '#'
getCommentSyntax(language) ==
  LET key == ToLowerCase(language) IN
  CASE key = Python      -> <<"#">>
    [] key \in {Java, CSharp, TypeScript, JavaScript} -> <<"/","/">>
    [] key = Constructor -> ObjectFunctionText
    [] key = Proto       -> ObjectObjectText
    [] OTHER             -> <<"#">>

\* section.language || 'python'
LanguageOf(section) == IF section.language = <<>> THEN Python ELSE section.language

\* `${n}` for a number: the decimal digits of a natural number
RECURSIVE NumberToString(_)
NumberToString(n) ==
  IF n < 10 THEN <<DigitChars[n + 1]>>
  ELSE NumberToString(n \div 10) \o <<DigitChars[(n % 10) + 1]>>

\* the file name without the '_' between the order index and the title
ExerciseFileNameUnseparated(section) ==
  <<"e","x","e","r","c","i","s","e","_">> \o NumberToString(section.orderIndex)
    \o sanitizeFileName(section.title) \o <<".">>
    \o getFileExtension(LanguageOf(section))

\* `exercise_${section.orderIndex}_${sanitizeFileName(section.title)}.${ext}`
ExerciseFileName(section) ==
  <<"e","x","e","r","c","i","s","e","_">> \o NumberToString(section.orderIndex)
    \o <<"_">> \o sanitizeFileName(section.title) \o <<".">>
    \o getFileExtension(LanguageOf(section))

\* path.join(exercisesPath, fileName)
ExercisePath(exercisesPath, section) ==
  exercisesPath \o <<"/">> \o ExerciseFileName(section)

\* `${comment} Exercise: ${title}\n${comment} TODO: Implement your solution here\n\n`
getDefaultBoilerplate(language, title) ==
  LET comment == getCommentSyntax(language) IN
  comment \o <<" ","E","x","e","r","c","i","s","e",":"," ">> \o title \o <<"\n">>
    \o comment \o <<" ","T","O","D","O",":"," ","I","m","p","l","e","m","e","n","t"," ",
                     "y","o","u","r"," ","s","o","l","u","t","i","o","n"," ",
                     "h","e","r","e","\n","\n">>

\* the extension of a path: the characters after its last '.'
RECURSIVE PathExtension(_)
PathExtension(p) ==
  IF p = <<>> \/ ~InSeq(".", p) THEN <<>>
  ELSE IF InSeq(".", Tail(p)) THEN PathExtension(Tail(p))
  ELSE IF Head(p) = "." THEN Tail(p) ELSE PathExtension(Tail(p))

\* new RelativePattern(workspaceRoot, 'topics/**/*.{py,java,cs,ts,js}')
WatcherMatches(p) ==
  PathExtension(p) \in {<<"p","y">>, <<"j","a","v","a">>, <<"c","s">>, <<"t","s">>, <<"j","s">>}

----------------------------------------------------------------------------
(* Maps *)

\* the value of `last` after a handler that decides nothing
Quiet == [op |-> "none", path |-> <<>>, res |-> "none"]

\* the value of `last` after a handler that decides something: it is recorded
\* when the specification observes that kind of outcome
Observed(op, path, res) ==
  IF op \in observe THEN [op |-> op, path |-> path, res |-> res] ELSE Quiet

Outcomes == {"timer", "manual", "saved", "failed", "materialized", "cmdfailed"}

Put(m, k, v) == [x \in DOMAIN m \cup {k} |-> IF x = k THEN v ELSE m[x]]
Remove(m, k) == [x \in DOMAIN m \ {k} |-> m[x]]
Range(f) == {f[x] : x \in DOMAIN f}
MinOf(S) == CHOOSE x \in S : \A y \in S : x <= y

----------------------------------------------------------------------------
(* The catalog and the inputs of the model *)

NoUser == "undefined"
Users == {"u1"}

\* Section documents (models.Section)
Sec(id, lessonId, type, orderIndex, title, language, starterValue) ==
  [id |-> id, lessonId |-> lessonId, type |-> type, orderIndex |-> orderIndex,
   title |-> title, language |-> language, starterValue |-> starterValue]

\* A lesson document with the course it belongs to and the folder
\* path.join(workspaceRoot, userId, 'topics', topicId, lessonId, 'exercises')
CatalogLesson(courseId, exercisesPath, sections) ==
  [courseId |-> courseId, exercisesPath |-> exercisesPath, sections |-> sections]

IntroToLoops == <<"I","n","t","r","o"," ","t","o"," ","L","o","o","p","s","!","!">>

\* Lesson l1 of course c1 has a code exercise and a text section; lesson l2 of
\* course c2 has a code exercise with a starter; lesson l3 of course c1 has
\* two code exercises.  The exercises folder of l1 is
\* spelled with an upper-case letter, so that lower-casing a path changes it.
\* The lessons p1 .. p9 hold one code exercise each, one per kind of language
\* value a section document can carry.
Catalog ==
  [l1 |-> CatalogLesson("c1", <<"W","/","1">>,
            << Sec("s1", "l1", "code", 1, <<"A","!">>, <<>>, <<>>),
               Sec("t1", "l1", "text", 2, <<"T">>, <<>>, <<>>) >>),
   l2 |-> CatalogLesson("c2", <<"w","/","2">>,
            << Sec("s2", "l2", "code", 1, <<"b">>, <<"J","a","v","a">>, <<"s">>) >>),
   l3 |-> CatalogLesson("c1", <<"W","/","3">>,
            << Sec("s3", "l3", "code", 1, <<"c">>, <<>>, <<>>),
               Sec("s4", "l3", "code", 2, <<"d">>, <<>>, <<>>) >>),
   p1 |-> CatalogLesson("c3", <<"p","/","1">>,
            << Sec("q1", "p1", "code", 3, IntroToLoops, Python, <<>>) >>),
   p2 |-> CatalogLesson("c3", <<"p","/","2">>,
            << Sec("q2", "p2", "code", 1, <<"x">>, <<"J","A","V","A">>, <<>>) >>),
   p3 |-> CatalogLesson("c3", <<"p","/","3">>,
            << Sec("q3", "p3", "code", 1, <<"x">>, CSharp, <<>>) >>),
   p4 |-> CatalogLesson("c3", <<"p","/","4">>,
            << Sec("q4", "p4", "code", 1, <<"x">>, TypeScript, <<>>) >>),
   p5 |-> CatalogLesson("c3", <<"p","/","5">>,
            << Sec("q5", "p5", "code", 1, <<"x">>, JavaScript, <<>>) >>),
   p6 |-> CatalogLesson("c3", <<"p","/","6">>,
            << Sec("q6", "p6", "code", 1, <<"x">>, <<"r","u","b","y">>, <<>>) >>),
   p7 |-> CatalogLesson("c3", <<"p","/","7">>,
            << Sec("q7", "p7", "code", 1, <<"x">>, <<"r","u","b","y">>, <<"s">>) >>),
   p8 |-> CatalogLesson("c3", <<"p","/","8">>,
            << Sec("q8", "p8", "code", 1, <<"x">>, Constructor, <<>>) >>),
   p9 |-> CatalogLesson("c3", <<"p","/","9">>,
            << Sec("q9", "p9", "code", 1, <<"x">>, Proto, <<>>) >>)]

\* the lessons whose exercise shows one language value each
LanguageLessons == {"p1", "p2", "p3", "p4", "p5", "p6", "p7", "p8", "p9"}

CodeSections(l) == SelectSeq(Catalog[l].sections, LAMBDA s : s.type = "code")

\* the paths of the exercise files of a lesson, and all their spellings the
\* model considers: the one the Materializer writes and the all-lower-case one
LessonPaths == [l \in DOMAIN Catalog |->
                 {ExercisePath(Catalog[l].exercisesPath, CodeSections(l)[i]) :
                    i \in 1..Len(CodeSections(l))}]
SpellingsOf(l) == LessonPaths[l] \cup {ToLowerCase(p) : p \in LessonPaths[l]}

----------------------------------------------------------------------------
(* FileSyncManager: the debounce scheduler *)

\* History kept for the coalescing claims.  A burst of a path starts with a
\* change event that finds no timer of the path scheduled and goes on with
\* every change event that arrives while one is: such an event comes less
\* than the delay after the previous one, as a timer lives no longer than the
\* delay.  burst[p] counts, up to 2, the pushes the timers of the current
\* burst of p have started.
BurstAtChange(filePath) ==
  IF "burst" \notin observe \/ \E i \in 1..Len(timers) : timers[i].filePath = filePath
    THEN burst
    ELSE Put(burst, filePath, 0)

BurstAtFire(filePath, out) ==
  IF out = "started" /\ filePath \in DOMAIN burst /\ burst[filePath] < 2
    THEN [burst EXCEPT ![filePath] = @ + 1]
    ELSE burst

\* queueSync(filePath, '', courseId): clearTimeout of the handle pendingSaves
\* holds for the path, a new setTimeout, and pendingSaves.set.  Every timeout
\* has the same delay, so the timers fire in the order they were set: the new
\* one goes to the end of `timers`.
queueSync(filePath, courseId) ==
  LET kept == IF filePath \in DOMAIN pendingSaves
                THEN SelectSeq(timers, LAMBDA t : t.id # pendingSaves[filePath])
                ELSE timers
      free == (1..MaxTimers) \
                ({t.id : t \in Range(kept)} \cup Range(Remove(pendingSaves, filePath)))
      id == MinOf(free)
  IN
  /\ free # {}
  /\ timers' = Append(kept, [id |-> id, filePath |-> filePath, courseId |-> courseId,
                             stale |-> FALSE])
  /\ pendingSaves' = Put(pendingSaves, filePath, id)
  /\ burst' = BurstAtChange(filePath)

\* fileWatcher.onDidChange fires for a change of an existing file that the
\* watcher's pattern matches; creating a file raises onDidCreate, which has
\* no handler
onDidChange(filePath, existed) ==
  IF fileWatcher # "null" /\ existed /\ WatcherMatches(filePath)
    THEN queueSync(filePath, fileWatcher)
    ELSE UNCHANGED <<timers, pendingSaves, burst>>

----------------------------------------------------------------------------
(* InputMetricsTracker *)

PASTE_CHAR_THRESHOLD == 2

LF == "\n"
CR == "\r"
Space == " "
\* the characters of inserted text: a letter and the white space \s matches
TextChars == {"a", LF, CR, Space}
WhitespaceChars == {LF, CR, Space}

SeqsUpTo(S, n) == UNION {[1..k -> S] : k \in 0..n}

\* a block of 50 letters, and Enter in a deeply indented line
PastedBlock == [i \in 1..50 |-> "a"]
DeepIndent == [i \in 1..50 |-> IF i = 1 THEN LF ELSE Space]

\* the texts one content change may insert
Texts == SeqsUpTo(TextChars, MaxTextLen) \cup {PastedBlock, DeepIndent}

\* a file of the workspace that is no exercise file
OtherFile == <<"W", "/", "r", ".", "p", "y">>

\* /^\r?\n\s*$/.test(insertedText)
isNewlineWithIndent(insertedText) ==
  LET rest == IF insertedText # <<>> /\ Head(insertedText) = CR
                THEN Tail(insertedText) ELSE insertedText
  IN /\ rest # <<>>
     /\ Head(rest) = LF
     /\ \A i \in 2..Len(rest) : rest[i] \in WhitespaceChars

\* text.includes(part)
Includes(text, part) ==
  \E i \in 1..(Len(text) - Len(part) + 1) : SubSeq(text, i, i + Len(part) - 1) = part

ExerciseMarker == <<"e", "x", "e", "r", "c", "i", "s", "e", "_">>

\* the FileMetrics getOrCreate returns: the entry of the lower-cased path, or
\* a new one
getOrCreate(filePath) ==
  IF ToLowerCase(filePath) \in DOMAIN metrics
    THEN metrics[ToLowerCase(filePath)]
    ELSE [keystrokeCount |-> 0, pasteCount |-> 0, pasteCharCount |-> 0,
          firstInputAt |-> <<>>, lastInputAt |-> <<>>]

\* handleDocumentChange with the paste test applied to every insertion
CountChangeAlwaysPaste(m, insertedText) ==
  IF Len(insertedText) = 0
    THEN [m EXCEPT !.keystrokeCount = @ + 1]
    ELSE [m EXCEPT !.pasteCount = @ + 1, !.pasteCharCount = @ + Len(insertedText)]

\* the body of the loop over e.contentChanges
CountChange(m, insertedText) ==
  IF Len(insertedText) = 0
    THEN [m EXCEPT !.keystrokeCount = @ + 1]
  ELSE IF Len(insertedText) <= PASTE_CHAR_THRESHOLD \/ isNewlineWithIndent(insertedText)
    THEN [m EXCEPT !.keystrokeCount = @ + 1]
  ELSE [m EXCEPT !.pasteCount = @ + 1, !.pasteCharCount = @ + Len(insertedText)]

RECURSIVE CountChanges(_, _, _)
CountChanges(m, contentChanges, n) ==
  IF n = 0 THEN m
  ELSE CountChange(CountChanges(m, contentChanges, n - 1), contentChanges[n])

\* handleDocumentChange: the metrics map after the event.  A time is <<t>>,
\* null is <<>>.
handleDocumentChange(filePath, contentChanges, now) ==
  IF ~Includes(filePath, ExerciseMarker) \/ Len(contentChanges) = 0
    THEN metrics
    ELSE LET m == getOrCreate(filePath)
             stamped == [m EXCEPT !.firstInputAt = IF @ = <<>> THEN <<now>> ELSE @,
                                  !.lastInputAt = <<now>>]
         IN Put(metrics, ToLowerCase(filePath),
                CountChanges(stamped, contentChanges, Len(contentChanges)))

\* the readings new Date() can give
Times == IF "clock" \in observe THEN 0..MaxClock ELSE {0}

\* History: the changes of a file the tracker has observed, and those the
\* snapshots taken so far have counted.
TallyOf(filePath) ==
  IF ToLowerCase(filePath) \in DOMAIN tally
    THEN tally[ToLowerCase(filePath)]
    ELSE [seen |-> 0, counted |-> 0]

\* vscode.workspace.onDidChangeTextDocument: the user types in, or pastes
\* into, a document
onDidChangeTextDocument(filePath, contentChanges, now) ==
  /\ TallyOf(filePath).seen + Len(contentChanges) <= MaxChanges
  /\ metrics' = handleDocumentChange(filePath, contentChanges, now)
  /\ tally' = IF Includes(filePath, ExerciseMarker) /\ Len(contentChanges) > 0
                THEN Put(tally, ToLowerCase(filePath),
                         [TallyOf(filePath) EXCEPT !.seen = @ + Len(contentChanges)])
                ELSE tally
  /\ last' = Observed("changed", filePath,
                      [contentChanges |-> contentChanges,
                       before |-> getOrCreate(filePath),
                       after |-> IF ToLowerCase(filePath) \in DOMAIN metrics'
                                   THEN metrics'[ToLowerCase(filePath)]
                                   ELSE getOrCreate(filePath)])
  /\ UNCHANGED <<lessons, spellings, typed, observe, userId, files, records, syncVars, pushes,
                 currentWorkspace, commands, burst>>

\* the InputMetrics getAndReset(filePath, charCount) returns
getAndReset(filePath, charCount, now) ==
  LET key == ToLowerCase(filePath)
      has == key \in DOMAIN metrics
      m == metrics[key]
      timed == has /\ m.firstInputAt # <<>> /\ m.lastInputAt # <<>>
      elapsed == IF timed THEN m.lastInputAt[1] - m.firstInputAt[1] ELSE 0
  IN [keystrokeCount |-> IF has THEN m.keystrokeCount ELSE 0,
      pasteCount |-> IF has THEN m.pasteCount ELSE 0,
      pasteCharCount |-> IF has THEN m.pasteCharCount ELSE 0,
      editDurationMs |-> IF elapsed > 0 THEN elapsed ELSE 0,
      charCount |-> charCount,
      firstInputAt |-> IF has /\ m.firstInputAt # <<>> THEN m.firstInputAt ELSE <<now>>,
      lastInputAt |-> IF has /\ m.lastInputAt # <<>> THEN m.lastInputAt ELSE <<now>>]

\* getAndReset without its this.metrics.delete(key)
MetricsAfterResetKept(filePath) == metrics

\* this.metrics.delete(key) of getAndReset
MetricsAfterReset(filePath) == Remove(metrics, ToLowerCase(filePath))

\* History: the snapshot counts its keystrokes and pastes
TallyAfterReset(filePath, snapshot) ==
  IF "tally" \in observe
    THEN Put(tally, ToLowerCase(filePath),
             [TallyOf(filePath) EXCEPT !.counted = @ + snapshot.keystrokeCount + snapshot.pasteCount])
    ELSE tally

----------------------------------------------------------------------------
(* FileSyncManager: the push coordinator *)

\* syncFile without its `if (this.syncInProgress.has(filePath)) return`
SyncFileOutcomeUnguarded(filePath) ==
  IF ToLowerCase(filePath) \notin DOMAIN fileToSectionMap THEN "untracked"
  ELSE IF userId = NoUser THEN "nouser"
  ELSE "started"

\* the synchronous head of syncFile: what it decides before its first await
SyncFileOutcome(filePath) ==
  IF ToLowerCase(filePath) \notin DOMAIN fileToSectionMap THEN "untracked"
  ELSE IF filePath \in syncInProgress THEN "skipped"
  ELSE IF userId = NoUser THEN "nouser"
  ELSE "started"

FreePids == (1..MaxPushes) \ {p.pid : p \in pushes}

\* History kept for the ordering claim: the pushes of the same answer that
\* were started before a new one and have not ended.
StartedBefore(section) ==
  IF "order" \in observe
    THEN {q.pid : q \in {x \in pushes : x.section.id = section.id /\ x.userId = userId}}
    ELSE {}

\* syncInProgress.add(filePath) and the call of fs.readFile.  The fields
\* `older` and `newer` of a push are history: the pushes of the same answer
\* started before it, and the content the most recently started push that
\* has saved had read, when that push was started after this one.
StartPush(filePath, courseId, fromTimer) ==
  LET section == fileToSectionMap[ToLowerCase(filePath)] IN
  /\ FreePids # {}
  /\ syncInProgress' = syncInProgress \cup {filePath}
  /\ pushes' = pushes \cup
       {[pid |-> MinOf(FreePids), filePath |-> filePath, courseId |-> courseId,
         section |-> section, userId |-> userId,
         fromTimer |-> fromTimer, pc |-> "read", content |-> <<>>, docRef |-> 0,
         inputMetrics |-> <<>>,
         older |-> StartedBefore(section), newer |-> <<>>, blocked |-> FALSE]}

\* a syncFile without the finally block
InFlightAfterKept(push, ok) == syncInProgress

\* syncFile with the delete at the end of the try block instead of in finally
InFlightAfterTryOnly(push, ok) ==
  IF ok THEN syncInProgress \ {push.filePath} ELSE syncInProgress

\* the finally block of syncFile
InFlightAfter(push, ok) == syncInProgress \ {push.filePath}

\* History: what the end of `push` means for a push q that goes on.  The
\* ended push is no longer among the older ones of q; when it has saved and
\* had been started after q, q now holds what it had read.
Outlived(q, push, ok) ==
  [q EXCEPT !.older = @ \ {push.pid},
            !.newer = IF ok /\ q.pid \in push.older
                        THEN (IF push.newer # <<>> THEN push.newer ELSE <<push.content>>)
                        ELSE @]

\* The end of a syncFile that was suspended: the finally block and, when a
\* timer callback awaited it, the callback's pendingSaves.delete(filePath).
FinishPush(push, ok) ==
  /\ pushes' = {Outlived(q, push, ok) : q \in pushes \ {push}}
  /\ syncInProgress' = InFlightAfter(push, ok)
  /\ pendingSaves' = IF push.fromTimer THEN Remove(pendingSaves, push.filePath)
                                       ELSE pendingSaves

\* History kept for the dropped-edit claim: the field `blocked` of a push
\* says that a timer of its path fired while it was in flight and was skipped.
Blocking(filePath, out) ==
  IF "dropped" \in observe /\ out = "skipped"
    THEN {IF q.filePath = filePath THEN [q EXCEPT !.blocked = TRUE] ELSE q : q \in pushes}
    ELSE pushes

\* a syncFile that takes the metrics snapshot before it looks the path up
TimerFireSnapshotFirst ==
  LET t == Head(timers)
      out == SyncFileOutcome(t.filePath)
  IN
  /\ timers # <<>>
  /\ timers' = Tail(timers)
  /\ IF out = "started"
       THEN /\ StartPush(t.filePath, t.courseId, TRUE)
            /\ UNCHANGED pendingSaves
       ELSE /\ pendingSaves' = Remove(pendingSaves, t.filePath)
            /\ pushes' = Blocking(t.filePath, out)
            /\ UNCHANGED syncInProgress
  /\ metrics' = MetricsAfterReset(t.filePath)
  /\ burst' = BurstAtFire(t.filePath, out)
  /\ last' = Observed("timer", t.filePath, out)
  /\ UNCHANGED <<lessons, spellings, typed, observe, tally, userId, files, records, fileWatcher, fileToSectionMap,
                 trackedLessons, currentCourseId, currentWorkspace, commands>>

\* a timer callback that queues the path again when syncFile skips it
TimerFireRequeues ==
  LET t == Head(timers)
      out == SyncFileOutcome(t.filePath)
  IN
  /\ timers # <<>>
  /\ IF out = "started"
       THEN /\ StartPush(t.filePath, t.courseId, TRUE)
            /\ timers' = Tail(timers)
            /\ UNCHANGED pendingSaves
       ELSE IF out = "skipped"
         THEN /\ timers' = Append(Tail(timers), t)
              /\ pendingSaves' = Put(pendingSaves, t.filePath, t.id)
              /\ pushes' = Blocking(t.filePath, out)
              /\ UNCHANGED syncInProgress
         ELSE /\ timers' = Tail(timers)
              /\ pendingSaves' = Remove(pendingSaves, t.filePath)
              /\ UNCHANGED <<pushes, syncInProgress>>
  /\ burst' = BurstAtFire(t.filePath, out)
  /\ last' = Observed("timer", t.filePath, out)
  /\ UNCHANGED <<lessons, spellings, typed, observe, metrics, tally, userId, files, records, fileWatcher, fileToSectionMap,
                 trackedLessons, currentCourseId, currentWorkspace, commands>>

\* The setTimeout callback of queueSync runs: syncFile up to its first await;
\* when syncFile returns at once the callback goes on to pendingSaves.delete.
TimerFire ==
  LET t == Head(timers)
      out == SyncFileOutcome(t.filePath)
  IN
  /\ timers # <<>>
  /\ timers' = Tail(timers)
  /\ IF out = "started"
       THEN /\ StartPush(t.filePath, t.courseId, TRUE)
            /\ UNCHANGED pendingSaves
       ELSE /\ pendingSaves' = Remove(pendingSaves, t.filePath)
            /\ pushes' = Blocking(t.filePath, out)
            /\ UNCHANGED syncInProgress
  /\ burst' = BurstAtFire(t.filePath, out)
  /\ last' = Observed("timer", t.filePath, out)
  /\ UNCHANGED <<lessons, spellings, typed, observe, metrics, tally, userId, files, records, fileWatcher, fileToSectionMap,
                 trackedLessons, currentCourseId, currentWorkspace, commands>>

\* a syncCurrentFile that clears the pending timeout of the path first
syncCurrentFileCancelsTimer(filePath) ==
  LET active == DOMAIN fileToSectionMap # {} /\ currentCourseId # "null"
      out == IF active THEN SyncFileOutcome(filePath) ELSE "inactive"
  IN
  /\ IF out = "started"
       THEN StartPush(filePath, currentCourseId, FALSE)
       ELSE UNCHANGED <<pushes, syncInProgress>>
  /\ timers' = IF filePath \in DOMAIN pendingSaves
                 THEN SelectSeq(timers, LAMBDA t : t.id # pendingSaves[filePath])
                 ELSE timers
  /\ pendingSaves' = Remove(pendingSaves, filePath)
  /\ last' = Observed("manual", filePath, out)
  /\ UNCHANGED <<lessons, spellings, typed, observe, metrics, tally, userId, files, records, fileWatcher,
                 fileToSectionMap, trackedLessons, currentCourseId,
                 currentWorkspace, commands, burst>>

\* a syncFile that takes the metrics snapshot before its guards and leaves
\* through the not-signed-in return without its finally block
syncCurrentFileEarlySnapshot(filePath) ==
  LET active == DOMAIN fileToSectionMap # {} /\ currentCourseId # "null"
      out == IF active THEN SyncFileOutcome(filePath) ELSE "inactive"
  IN
  /\ IF out = "started"
       THEN StartPush(filePath, currentCourseId, FALSE)
       ELSE /\ syncInProgress' = IF out = "nouser" THEN syncInProgress \cup {filePath}
                                                   ELSE syncInProgress
            /\ UNCHANGED pushes
  /\ metrics' = IF active THEN MetricsAfterReset(filePath) ELSE metrics
  /\ last' = Observed("manual", filePath, out)
  /\ UNCHANGED <<lessons, spellings, typed, observe, tally, userId, files, records, fileWatcher, pendingSaves,
                 fileToSectionMap, trackedLessons, currentCourseId, timers,
                 currentWorkspace, commands, burst>>

\* syncCurrentFile(filePath), which the onDidSaveTextDocument hook calls for
\* every saved document whose name includes 'exercise_'
syncCurrentFile(filePath) ==
  LET active == DOMAIN fileToSectionMap # {} /\ currentCourseId # "null"
      out == IF active THEN SyncFileOutcome(filePath) ELSE "inactive"
  IN
  /\ IF out = "started"
       THEN StartPush(filePath, currentCourseId, FALSE)
       ELSE UNCHANGED <<pushes, syncInProgress>>
  /\ last' = Observed("manual", filePath, out)
  /\ UNCHANGED <<lessons, spellings, typed, observe, metrics, tally, userId, files, records, fileWatcher, pendingSaves,
                 fileToSectionMap, trackedLessons, currentCourseId, timers,
                 currentWorkspace, commands, burst>>

\* the documents a query where sectionId == .. and userId == .. returns
Matching(sectionId, uid) ==
  {i \in 1..Len(records) : records[i].sectionId = sectionId /\ records[i].userId = uid}

\* a syncFile that writes the file back after reading it
PushReadWritesBack(push) ==
  /\ push \in pushes /\ push.pc = "read"
  /\ ToLowerCase(push.filePath) \in DOMAIN files
  /\ pushes' = (pushes \ {push}) \cup
                 {[push EXCEPT !.pc = "query",
                               !.content = files[ToLowerCase(push.filePath)]]}
  /\ files' = Put(files, ToLowerCase(push.filePath), <<>>)
  /\ last' = Quiet
  /\ UNCHANGED <<lessons, spellings, typed, observe, metrics, tally, userId, records, syncVars, currentWorkspace,
                 commands, burst>>

\* fs.readFile resolves: the content is read, and saveStudentAnswer is called
\* and suspends at its getDocs query
PushRead(push) ==
  /\ push \in pushes /\ push.pc = "read"
  /\ ToLowerCase(push.filePath) \in DOMAIN files
  /\ \E now \in Times :
       LET content == files[ToLowerCase(push.filePath)]
           inputMetrics == getAndReset(push.filePath, Len(content), now)
       IN /\ pushes' = (pushes \ {push}) \cup
                          {[push EXCEPT !.pc = "query", !.content = content,
                                        !.inputMetrics = inputMetrics]}
          /\ metrics' = MetricsAfterReset(push.filePath)
          /\ tally' = TallyAfterReset(push.filePath, inputMetrics)
          /\ last' = Observed("snapshot", push.filePath,
                              [inputMetrics |-> inputMetrics,
                               pending |-> TallyOf(push.filePath).seen
                                             - TallyOf(push.filePath).counted])
  /\ UNCHANGED <<lessons, spellings, typed, observe, userId, files, records, syncVars, currentWorkspace,
                 commands, burst>>

\* saveStudentAnswer: getDocs resolves; an existing answer is updated through
\* the reference of snapshot.docs[0], otherwise a new document is added
PushQuery(push) ==
  LET found == Matching(push.section.id, push.userId) IN
  /\ push \in pushes /\ push.pc = "query"
  /\ pushes' = (pushes \ {push}) \cup
                 {IF found # {} THEN [push EXCEPT !.pc = "update", !.docRef = MinOf(found)]
                                ELSE [push EXCEPT !.pc = "add"]}
  /\ last' = Quiet
  /\ UNCHANGED <<lessons, spellings, typed, observe, metrics, tally, userId, files, records, syncVars, currentWorkspace,
                 commands, burst>>

\* the document addDoc creates
NewAnswer(push) ==
  [sectionId |-> push.section.id, userId |-> push.userId,
   lessonId |-> push.section.lessonId, courseId |-> push.courseId,
   answer |-> push.content]

\* the collection after updateDoc(docRef, {answer: content}) or addDoc(data)
SavedRecords(push) ==
  IF push.pc = "update"
    THEN [records EXCEPT ![push.docRef].answer = push.content]
    ELSE Append(records, NewAnswer(push))

\* updateDoc / addDoc resolves, saveStudentAnswer returns and syncFile ends
PushWrite(push) ==
  /\ push \in pushes /\ push.pc \in {"update", "add"}
  /\ records' = SavedRecords(push)
  /\ FinishPush(push, TRUE)
  /\ last' = Observed("saved", push.filePath,
                      [section |-> push.section.id, userId |-> push.userId,
                       content |-> push.content, newer |-> push.newer,
                       blocked |-> push.blocked])
  /\ UNCHANGED <<lessons, spellings, typed, observe, metrics, tally, userId, files, fileWatcher, fileToSectionMap, trackedLessons,
                 currentCourseId, timers, currentWorkspace, commands, burst>>

\* a syncFile whose catch block stops the watcher
PushFailEndsSession(push) ==
  /\ push \in pushes
  /\ pushes' = {Outlived(q, push, FALSE) : q \in pushes \ {push}}
  /\ syncInProgress' = InFlightAfter(push, FALSE)
  /\ timers' = timers
  /\ fileWatcher' = "null"
  /\ pendingSaves' = <<>>
  /\ fileToSectionMap' = <<>>
  /\ trackedLessons' = {}
  /\ currentCourseId' = "null"
  /\ last' = Observed("failed", push.filePath, push.pc)
  /\ UNCHANGED <<lessons, spellings, typed, observe, metrics, tally, userId, files, records,
                 currentWorkspace, commands, burst>>

\* a syncFile whose catch block queues the path again
PushFailRetries(push) ==
  /\ push \in pushes
  /\ pushes' = {Outlived(q, push, FALSE) : q \in pushes \ {push}}
  /\ syncInProgress' = InFlightAfter(push, FALSE)
  /\ queueSync(push.filePath, push.courseId)
  /\ last' = Observed("failed", push.filePath, push.pc)
  /\ UNCHANGED <<lessons, spellings, typed, observe, metrics, tally, userId, files, records, fileWatcher, fileToSectionMap,
                 trackedLessons, currentCourseId, currentWorkspace, commands>>

\* The awaited operation of a suspended syncFile rejects (the file cannot be
\* read, the store cannot be reached or refuses the write): the catch block
\* reports it and the finally block runs.
PushFail(push) ==
  /\ push \in pushes
  /\ FinishPush(push, FALSE)
  /\ last' = Observed("failed", push.filePath, push.pc)
  /\ UNCHANGED <<lessons, spellings, typed, observe, metrics, tally, userId, files, records, fileWatcher, fileToSectionMap,
                 trackedLessons, currentCourseId, timers, currentWorkspace, commands,
                 burst>>

----------------------------------------------------------------------------
(* FileSyncManager: the session *)

\* History kept for the session claim: the field `stale` of a timer says
\* that it was set in a session that has been discarded since.
Outdated(ts) ==
  IF "session" \in observe THEN [i \in 1..Len(ts) |-> [ts[i] EXCEPT !.stale = TRUE]]
                           ELSE ts

\* stopWatching(): the watcher is disposed and the maps are cleared; the
\* timeouts pendingSaves held are not cleared and syncInProgress is kept
stopWatching ==
  /\ timers' = Outdated(timers)
  /\ fileWatcher' = "null"
  /\ pendingSaves' = <<>>
  /\ fileToSectionMap' = <<>>
  /\ trackedLessons' = {}
  /\ currentCourseId' = "null"

\* the entries trackLesson adds to fileToSectionMap for the first n sections
RECURSIVE TrackedMap(_, _, _, _)
TrackedMap(map, exercisesPath, sections, n) ==
  IF n = 0 THEN map
  ELSE LET m == TrackedMap(map, exercisesPath, sections, n - 1)
           section == sections[n]
       IN IF section.type = "code"
            THEN Put(m, ToLowerCase(ExercisePath(exercisesPath, section)), section)
            ELSE m

\* trackLesson without its stopWatching on a change of course
trackLessonKeepsSession(exercisesPath, lessonId, sections, courseId) ==
  /\ currentCourseId' = courseId
  /\ trackedLessons' = trackedLessons \cup {lessonId}
  /\ fileToSectionMap' = TrackedMap(fileToSectionMap, exercisesPath, sections, Len(sections))
  /\ pendingSaves' = pendingSaves
  /\ timers' = timers
  /\ fileWatcher' = IF fileWatcher = "null" THEN courseId ELSE fileWatcher

\* trackLesson(exercisesPath, lessonId, sections, courseId)
trackLesson(exercisesPath, lessonId, sections, courseId) ==
  LET changed == currentCourseId # "null" /\ currentCourseId # courseId IN
  /\ currentCourseId' = courseId
  /\ trackedLessons' = (IF changed THEN {} ELSE trackedLessons) \cup {lessonId}
  /\ fileToSectionMap' = TrackedMap(IF changed THEN <<>> ELSE fileToSectionMap,
                                     exercisesPath, sections, Len(sections))
  /\ pendingSaves' = IF changed THEN <<>> ELSE pendingSaves
  /\ timers' = IF changed THEN Outdated(timers) ELSE timers
  /\ fileWatcher' = IF changed \/ fileWatcher = "null" THEN courseId ELSE fileWatcher

\* a stopWatching that also clears the in-flight set
WorkspaceFoldersChangedClearsInFlight ==
  /\ stopWatching
  /\ syncInProgress' = {}
  /\ last' = Quiet
  /\ UNCHANGED <<lessons, spellings, typed, observe, metrics, tally, userId, files, records, pushes,
                 currentWorkspace, commands, burst>>

\* vscode.workspace.onDidChangeWorkspaceFolders: stopWatching()
WorkspaceFoldersChanged ==
  /\ stopWatching
  /\ last' = Quiet
  /\ UNCHANGED <<lessons, spellings, typed, observe, metrics, tally, userId, files, records, syncInProgress, pushes,
                 currentWorkspace, commands, burst>>

----------------------------------------------------------------------------
(* The editor and the account *)

\* The workspace lies on a file system that ignores letter case (the one the
\* lower-cased keys of the code are written for): the spellings of a path
\* name one file, and `files` is keyed by the lower-cased path.

\* The user changes an existing exercise file (an editor save or any other
\* writer); the watcher reports the change under the spelling it was made with.
UserEdit(filePath, content) ==
  /\ ToLowerCase(filePath) \in DOMAIN files
  /\ files' = Put(files, ToLowerCase(filePath), content)
  /\ onDidChange(filePath, TRUE)
  /\ last' = Quiet
  /\ UNCHANGED <<lessons, spellings, typed, observe, metrics, tally, userId, records, fileWatcher, syncInProgress, fileToSectionMap,
                 trackedLessons, currentCourseId, pushes, currentWorkspace, commands>>

\* onDidSaveTextDocument: documents whose fileName includes 'exercise_' are
\* handed to syncCurrentFile; every path of the model includes it
onDidSaveTextDocument(filePath) ==
  /\ ToLowerCase(filePath) \in DOMAIN files
  /\ syncCurrentFile(filePath)

\* One save of a document of the editor: the write reaches the disk, the
\* watcher reports the change (queueSync) and onDidSaveTextDocument hands the
\* document to syncCurrentFile.  queueSync touches the timers only and the
\* synchronous part of syncFile the pushes only, so their order is immaterial.
SaveDocument(filePath, content) ==
  LET active == DOMAIN fileToSectionMap # {} /\ currentCourseId # "null"
      out == IF active THEN SyncFileOutcome(filePath) ELSE "inactive"
  IN
  /\ ToLowerCase(filePath) \in DOMAIN files
  /\ files' = Put(files, ToLowerCase(filePath), content)
  /\ onDidChange(filePath, TRUE)
  /\ IF out = "started"
       THEN StartPush(filePath, currentCourseId, FALSE)
       ELSE UNCHANGED <<pushes, syncInProgress>>
  /\ last' = Observed("manual", filePath, out)
  /\ UNCHANGED <<lessons, spellings, typed, observe, metrics, tally, userId, records, fileWatcher,
                 fileToSectionMap, trackedLessons, currentCourseId,
                 currentWorkspace, commands>>

\* onAuthStateChanged / restoreSession: globalState.update('userId', ..)
SignIn(u) ==
  /\ userId = NoUser
  /\ userId' = u
  /\ last' = Quiet
  /\ UNCHANGED <<lessons, spellings, typed, observe, metrics, tally, files, records, syncVars, pushes, currentWorkspace,
                 commands, burst>>

SignOut ==
  /\ userId # NoUser
  /\ userId' = NoUser
  /\ last' = Quiet
  /\ UNCHANGED <<lessons, spellings, typed, observe, metrics, tally, files, records, syncVars, pushes, currentWorkspace,
                 commands, burst>>

----------------------------------------------------------------------------
(* WorkspaceManager: the Materializer *)

\* getStudentAnswer(sectionId, userId): snapshot.docs[0] or null, as a
\* sequence of at most one document
getStudentAnswer(sectionId, uid) ==
  LET found == Matching(sectionId, uid) IN
  IF found = {} THEN <<>> ELSE <<records[MinOf(found)]>>

\* `if (answer && answer.answer) studentAnswer = answer.answer`: null and the
\* empty string are both falsy and leave studentAnswer null (here <<>>)
StudentAnswerOf(fetched) == IF fetched = <<>> THEN <<>> ELSE fetched[1].answer

\* createExerciseFile with `else` in the place of `else if (!fileExists)`
MaterializeDecisionNoExistsCheck(section, fileExists, studentAnswer) ==
  IF studentAnswer # <<>>
    THEN [write |-> TRUE, content |-> studentAnswer, res |-> "synced"]
    ELSE [write |-> TRUE,
          content |-> IF section.starterValue # <<>>
                        THEN section.starterValue
                        ELSE getDefaultBoilerplate(LanguageOf(section), section.title),
          res |-> "created"]

\* The content priority of createExerciseFile.
MaterializeDecision(section, fileExists, studentAnswer) ==
  IF studentAnswer # <<>>
    THEN [write |-> TRUE, content |-> studentAnswer, res |-> "synced"]
  ELSE IF ~fileExists
    THEN [write |-> TRUE,
          content |-> IF section.starterValue # <<>>
                        THEN section.starterValue
                        ELSE getDefaultBoilerplate(LanguageOf(section), section.title),
          res |-> "created"]
  ELSE [write |-> FALSE, content |-> <<>>, res |-> "preserved"]

FreeCids == (1..MaxCommands) \ {c.cid : c \in commands}

\* the section createExerciseFile is working on
SectionOf(c) ==
  IF c.stage = "exercise" THEN c.target[1] ELSE CodeSections(c.lessonId)[c.idx]

PathOf(c) == ExercisePath(c.exercisesPath, SectionOf(c))

\* createExerciseFile is entered: fs.access is pending
EnterCreate(c, stage, idx, exercisesPath) ==
  [c EXCEPT !.stage = stage, !.idx = idx, !.pc = "exists", !.userId = userId,
            !.exercisesPath = exercisesPath, !.fileExists = FALSE,
            !.fetched = <<>>, !.content = <<>>]

\* What follows the end of one createExerciseFile: the next code section of
\* setupLessonFiles; after the last one the openLesson command goes on to
\* trackLesson and the openExercise command to syncExerciseFile; after
\* syncExerciseFile the command is over (the empty set).
AfterCreate(c) ==
  IF c.stage = "setup" /\ c.idx < Len(CodeSections(c.lessonId))
    THEN {[EnterCreate(c, "setup", c.idx + 1, c.exercisesPath) EXCEPT !.userId = c.userId]}
  ELSE IF c.stage = "setup" /\ c.kind = "lesson"
    THEN {[c EXCEPT !.pc = "track"]}
  ELSE IF c.stage = "setup"
    THEN {EnterCreate(c, "exercise", 0, Catalog[currentWorkspace].exercisesPath)}
  ELSE {}

NewCommand(kind, lessonId, target) ==
  [cid |-> MinOf(FreeCids), kind |-> kind, lessonId |-> lessonId, target |-> target,
   stage |-> "open", idx |-> 0, pc |-> "setup", userId |-> userId,
   exercisesPath |-> <<>>, fileExists |-> FALSE, fetched |-> <<>>, content |-> <<>>]

\* The csLearningPlatform.openLesson (target = <<>>) or openExercise
\* (target = <<section>>) command starts: workspace.openLesson up to its first
\* await.  When openLesson returns at once (nobody signed in, or the lesson is
\* the current workspace) the command goes on with what follows it.
StartCommand(kind, lessonId, target) ==
  LET c == NewCommand(kind, lessonId, target)
      returns == userId = NoUser \/ currentWorkspace = lessonId
      next == IF ~returns THEN {c}
              ELSE IF kind = "lesson" THEN {[c EXCEPT !.pc = "track"]}
              ELSE IF currentWorkspace = "null" THEN {}
              ELSE {EnterCreate(c, "exercise", 0, Catalog[currentWorkspace].exercisesPath)}
  IN
  /\ FreeCids # {}
  /\ commands' = commands \cup next
  /\ last' = Quiet
  /\ UNCHANGED <<lessons, spellings, typed, observe, metrics, tally, userId, files, records, syncVars, pushes, currentWorkspace,
                 burst>>

\* openLesson past its fetches: currentWorkspace is set and setupLessonFiles
\* starts with the first code section
CmdSetup(c) ==
  /\ c \in commands /\ c.pc = "setup"
  /\ currentWorkspace' = c.lessonId
  /\ commands' = (commands \ {c}) \cup
       (IF CodeSections(c.lessonId) # <<>>
          THEN {EnterCreate(c, "setup", 1, Catalog[c.lessonId].exercisesPath)}
          ELSE AfterCreate([c EXCEPT !.stage = "setup"]))
  /\ last' = Quiet
  /\ UNCHANGED <<lessons, spellings, typed, observe, metrics, tally, userId, files, records, syncVars, pushes, burst>>

\* what a createExerciseFile that has returned saw and did
Materialized(c, wrote) ==
  Observed("materialized", PathOf(c),
           [section |-> SectionOf(c), fileExists |-> c.fileExists,
            fetched |-> c.fetched, wrote |-> wrote])

\* createExerciseFile once fileExists and studentAnswer are known: either
\* fs.writeFile is called (and pending) or the file is left alone and
\* createExerciseFile returns
Decided(c, fileExists, fetched) ==
  LET d == MaterializeDecision(SectionOf(c), fileExists, StudentAnswerOf(fetched))
      c1 == [c EXCEPT !.fileExists = fileExists, !.fetched = fetched,
                      !.content = d.content]
  IN
  /\ commands' = (commands \ {c}) \cup
                   (IF d.write THEN {[c1 EXCEPT !.pc = "write"]} ELSE AfterCreate(c1))
  /\ last' = IF d.write THEN Quiet ELSE Materialized(c1, FALSE)

\* fs.access resolves; with a user the answer is fetched next, without one
\* the content is decided at once
CmdExists(c) ==
  LET fileExists == ToLowerCase(PathOf(c)) \in DOMAIN files IN
  /\ c \in commands /\ c.pc = "exists"
  /\ IF c.userId # NoUser
       THEN /\ commands' = (commands \ {c}) \cup
                             {[c EXCEPT !.pc = "fetch", !.fileExists = fileExists]}
            /\ last' = Quiet
       ELSE Decided(c, fileExists, <<>>)
  /\ UNCHANGED <<lessons, spellings, typed, observe, metrics, tally, userId, files, records, syncVars, pushes, currentWorkspace,
                 burst>>

\* getStudentAnswer resolves
CmdFetch(c) ==
  /\ c \in commands /\ c.pc = "fetch"
  /\ Decided(c, c.fileExists, getStudentAnswer(SectionOf(c).id, c.userId))
  /\ UNCHANGED <<lessons, spellings, typed, observe, metrics, tally, userId, files, records, syncVars, pushes, currentWorkspace,
                 burst>>

\* fs.writeFile resolves: the file holds the decided content, and the watcher
\* sees the change when the file existed before
CmdWrite(c) ==
  LET key == ToLowerCase(PathOf(c)) IN
  /\ c \in commands /\ c.pc = "write"
  /\ files' = Put(files, key, c.content)
  /\ onDidChange(PathOf(c), key \in DOMAIN files)
  /\ commands' = (commands \ {c}) \cup AfterCreate(c)
  /\ last' = Materialized(c, TRUE)
  /\ UNCHANGED <<lessons, spellings, typed, observe, metrics, tally, userId, records, fileWatcher, syncInProgress, fileToSectionMap,
                 trackedLessons, currentCourseId, pushes, currentWorkspace>>

\* The awaited operation of a command rejects (a Firestore read or the file
\* write fails): the error reaches the command's catch block, which reports
\* it; nothing of the command runs afterwards.
CmdFail(c) ==
  /\ c \in commands /\ c.pc \in {"setup", "fetch", "write", "track"}
  /\ commands' = commands \ {c}
  /\ last' = Observed("cmdfailed", <<>>, c.pc)
  /\ UNCHANGED <<lessons, spellings, typed, observe, metrics, tally, userId, files, records, syncVars, pushes, currentWorkspace,
                 burst>>

\* The openLesson command past its own fetches: the exercises path is joined
\* (path.join throws on an undefined userId) and trackLesson is called.
CmdTrack(c) ==
  LET lesson == Catalog[c.lessonId] IN
  /\ c \in commands /\ c.pc = "track"
  /\ userId # NoUser
  /\ trackLesson(lesson.exercisesPath, c.lessonId, lesson.sections, lesson.courseId)
  /\ commands' = commands \ {c}
  /\ last' = Quiet
  /\ UNCHANGED <<lessons, spellings, typed, observe, metrics, tally, userId, files, records, syncInProgress, pushes,
                 currentWorkspace, burst>>

----------------------------------------------------------------------------
(* The specification *)

\* The state after activation: nothing is tracked, nothing is scheduled, the
\* workspace folder and the answer collection are empty.  The first five
\* variables describe the scenario and never change.
InitWith(ls, sp, ty, ob, us) ==
  /\ lessons = ls
  /\ spellings = sp
  /\ typed = ty
  /\ observe = ob
  /\ userId \in us
  /\ files = <<>>
  /\ records = <<>>
  /\ fileWatcher = "null"
  /\ pendingSaves = <<>>
  /\ syncInProgress = {}
  /\ fileToSectionMap = <<>>
  /\ trackedLessons = {}
  /\ currentCourseId = "null"
  /\ timers = <<>>
  /\ pushes = {}
  /\ currentWorkspace = "null"
  /\ commands = {}
  /\ metrics = <<>>
  /\ tally = <<>>
  /\ burst = <<>>
  /\ last = Quiet

\* one lesson, every path under the spelling the Materializer writes
Init ==
  InitWith({"l1"}, LessonPaths["l1"], {<<>>, <<"a">>}, Outcomes \cup {"dropped"},
           Users \cup {NoUser})

Next ==
  \/ \E p \in spellings, c \in typed : UserEdit(p, c)
  \/ \E p \in spellings : onDidSaveTextDocument(p)
  \/ TimerFire
  \/ \E push \in pushes : PushRead(push)
  \/ \E push \in pushes : PushQuery(push)
  \/ \E push \in pushes : PushWrite(push)
  \/ \E push \in pushes : PushFail(push)
  \/ WorkspaceFoldersChanged
  \/ \E u \in Users : SignIn(u)
  \/ SignOut
  \/ \E l \in lessons : StartCommand("lesson", l, <<>>)
  \/ \E l \in lessons : \E i \in 1..Len(CodeSections(l)) :
        StartCommand("exercise", l, <<CodeSections(l)[i]>>)
  \/ \E c \in commands : CmdSetup(c)
  \/ \E c \in commands : CmdExists(c)
  \/ \E c \in commands : CmdFetch(c)
  \/ \E c \in commands : CmdWrite(c)
  \/ \E c \in commands : CmdFail(c)
  \/ \E c \in commands : CmdTrack(c)

Spec == Init /\ [][Next]_vars

----------------------------------------------------------------------------
(* Scenarios *)

\* Change events, timer fires and pushes of one tracked lesson: the user stays
\* signed in, the workspace folders stay, nothing is synced by hand.
InitDebounce == InitWith({"l1"}, LessonPaths["l1"], {<<"a">>}, {"burst"}, Users)

NextDebounce ==
  \/ \E p \in spellings, c \in typed : UserEdit(p, c)
  \/ TimerFire
  \/ \E push \in pushes : PushRead(push)
  \/ \E push \in pushes : PushQuery(push)
  \/ \E push \in pushes : PushWrite(push)
  \/ \E push \in pushes : PushFail(push)
  \/ \E l \in lessons : StartCommand("lesson", l, <<>>)
  \/ \E c \in commands : CmdSetup(c)
  \/ \E c \in commands : CmdExists(c)
  \/ \E c \in commands : CmdFetch(c)
  \/ \E c \in commands : CmdWrite(c)
  \/ \E c \in commands : CmdTrack(c)

SpecDebounce == InitDebounce /\ [][NextDebounce]_vars

\* Editor events that name a file under either spelling, for a user who stays
\* signed in and opens the lesson from the course tree
InitSpellings == InitWith({"l1"}, SpellingsOf("l1"), {<<"a">>}, {}, Users)

NextSpellings ==
  \/ \E p \in spellings, c \in typed : UserEdit(p, c)
  \/ \E p \in spellings : onDidSaveTextDocument(p)
  \/ TimerFire
  \/ \E push \in pushes : PushRead(push)
  \/ \E push \in pushes : PushQuery(push)
  \/ \E push \in pushes : PushWrite(push)
  \/ \E push \in pushes : PushFail(push)
  \/ WorkspaceFoldersChanged
  \/ \E l \in lessons : StartCommand("lesson", l, <<>>)
  \/ \E c \in commands : CmdSetup(c)
  \/ \E c \in commands : CmdExists(c)
  \/ \E c \in commands : CmdFetch(c)
  \/ \E c \in commands : CmdWrite(c)
  \/ \E c \in commands : CmdFail(c)
  \/ \E c \in commands : CmdTrack(c)

SpecSpellings == InitSpellings /\ [][NextSpellings]_vars

\* The whole system on one of the lessons that show a language value
InitLanguages ==
  \E l \in LanguageLessons :
    InitWith({l}, LessonPaths[l], {<<"a">>}, {"materialized"}, Users \cup {NoUser})

SpecLanguages == InitLanguages /\ [][Next]_vars

\* Changes and saves reported under either spelling for one tracked lesson,
\* with the order of the pushes recorded
InitOrder == InitWith({"l1"}, SpellingsOf("l1"), {<<"a">>}, {"saved", "order"}, Users)

NextOrder ==
  \/ NextDebounce
  \/ \E p \in spellings : onDidSaveTextDocument(p)

SpecOrder == InitOrder /\ [][NextOrder]_vars

\* One lesson whose session is stopped and started again
InitSession == InitWith({"l1"}, LessonPaths["l1"], {<<"a">>}, {"timer", "session"}, Users)

NextSession ==
  \/ NextDebounce
  \/ WorkspaceFoldersChanged

SpecSession == InitSession /\ [][NextSession]_vars

\* The sections a lesson may hold: every order index up to MaxOrderIndex,
\* titles whose slugs overlap with digits and with each other, and languages
\* with and without an extension of their own.
PairTitles ==
  {<<>>, <<"a">>, <<"A">>, <<"1">>, <<"1", "a">>, <<"1", " ", "a">>, <<"a", "!", "1">>}

PairLanguages == {<<>>, Java}

PairSections(id) ==
  {Sec(id, "l4", "code", n, title, language, <<>>) :
     n \in 0..MaxOrderIndex, title \in PairTitles, language \in PairLanguages}

PairFolder == <<"W", "/", "4">>

\* the openLesson command hands the sections of a lesson to trackLesson
TrackSections(sections) ==
  /\ trackLesson(PairFolder, "l4", sections, "c4")
  /\ last' = Observed("tracked", PairFolder, sections)
  /\ UNCHANGED <<lessons, spellings, typed, observe, metrics, tally, userId, files, records, syncInProgress,
                 pushes, currentWorkspace, commands, burst>>

\* Path assignment alone: a lesson of two code sections is tracked, and the
\* session is discarded before another one is.
InitPaths == InitWith({}, {}, {}, {"tracked"}, Users)

\* the first lesson of a session is opened
TrackPair ==
  /\ trackedLessons = {}
  /\ \E a \in PairSections("sa"), b \in PairSections("sb") : TrackSections(<<a, b>>)

NextPaths ==
  \/ TrackPair
  \/ WorkspaceFoldersChanged

SpecPaths == InitPaths /\ [][NextPaths]_vars

\* A lesson of two exercise files is opened, again and again, and any
\* awaited operation of the command may reject.
InitSiblings ==
  InitWith({"l3"}, LessonPaths["l3"], {<<"a">>}, {"materialized", "cmdfailed"}, Users)

NextSiblings ==
  \/ \E p \in spellings, c \in typed : UserEdit(p, c)
  \/ WorkspaceFoldersChanged
  \/ \E l \in lessons : StartCommand("lesson", l, <<>>)
  \/ \E c \in commands : CmdSetup(c)
  \/ \E c \in commands : CmdExists(c)
  \/ \E c \in commands : CmdFetch(c)
  \/ \E c \in commands : CmdWrite(c)
  \/ \E c \in commands : CmdFail(c)
  \/ \E c \in commands : CmdTrack(c)

SpecSiblings == InitSiblings /\ [][NextSiblings]_vars

\* The tracker beside a session that is stopped and started again: the user
\* types into the document of the exercise file of l1 and saves it, the
\* watcher sees the change, and the workspace folders may change.
InitUnmapped ==
  InitWith({"l1"}, LessonPaths["l1"], {<<"a">>}, {"timer", "manual"}, Users)

NextUnmapped ==
  \/ \E p \in spellings, c \in typed : UserEdit(p, c)
  \/ \E p \in spellings, contentChanges \in SeqsUpTo(typed, MaxBatch), now \in Times :
       onDidChangeTextDocument(p, contentChanges, now)
  \/ \E p \in spellings : onDidSaveTextDocument(p)
  \/ TimerFire
  \/ WorkspaceFoldersChanged
  \/ \E push \in pushes : PushRead(push)
  \/ \E push \in pushes : PushQuery(push)
  \/ \E push \in pushes : PushWrite(push)
  \/ \E l \in lessons : StartCommand("lesson", l, <<>>)
  \/ \E c \in commands : CmdSetup(c)
  \/ \E c \in commands : CmdExists(c)
  \/ \E c \in commands : CmdFetch(c)
  \/ \E c \in commands : CmdWrite(c)
  \/ \E c \in commands : CmdTrack(c)

SpecUnmapped == InitUnmapped /\ [][NextUnmapped]_vars

\* Lessons of two courses are opened one after the other: l1 and l3 belong
\* to course c1, l2 to course c2.
InitScope == InitWith({"l1", "l2", "l3"}, {}, {}, {}, Users)

NextScope ==
  \/ WorkspaceFoldersChanged
  \/ \E l \in lessons : StartCommand("lesson", l, <<>>)
  \/ \E c \in commands : CmdSetup(c)
  \/ \E c \in commands : CmdExists(c)
  \/ \E c \in commands : CmdFetch(c)
  \/ \E c \in commands : CmdWrite(c)
  \/ \E c \in commands : CmdTrack(c)

SpecScope == InitScope /\ [][NextScope]_vars

\* Two courses: the user opens l1 (course c1) and l2 (course c2) at any
\* time and saves the exercise file of l1, and the workspace folders may
\* change.
InitSwitch ==
  InitWith({"l1", "l2"}, LessonPaths["l1"], {}, {"timer", "manual", "saved"}, Users)

NextSwitch ==
  \/ \E p \in spellings : onDidSaveTextDocument(p)
  \/ TimerFire
  \/ WorkspaceFoldersChanged
  \/ \E push \in pushes : PushRead(push)
  \/ \E push \in pushes : PushQuery(push)
  \/ \E push \in pushes : PushWrite(push)
  \/ \E l \in lessons : StartCommand("lesson", l, <<>>)
  \/ \E c \in commands : CmdSetup(c)
  \/ \E c \in commands : CmdExists(c)
  \/ \E c \in commands : CmdFetch(c)
  \/ \E c \in commands : CmdWrite(c)
  \/ \E c \in commands : CmdTrack(c)

SpecSwitch == InitSwitch /\ [][NextSwitch]_vars

\* Syncs that end early: the user signs in and out while keystrokes of the
\* exercise file of l1 are counted and pushes of it are suspended.
InitIdle ==
  InitWith({"l1"}, LessonPaths["l1"], {<<"a">>}, {"timer", "manual"}, Users \cup {NoUser})

NextIdle ==
  \/ \E p \in spellings, c \in typed : UserEdit(p, c)
  \/ \E p \in spellings, contentChanges \in SeqsUpTo(typed, MaxBatch), now \in Times :
       onDidChangeTextDocument(p, contentChanges, now)
  \/ \E p \in spellings : onDidSaveTextDocument(p)
  \/ TimerFire
  \/ \E push \in pushes : PushRead(push)
  \/ \E push \in pushes : PushQuery(push)
  \/ \E push \in pushes : PushWrite(push)
  \/ \E u \in Users : SignIn(u)
  \/ SignOut
  \/ \E l \in lessons : StartCommand("lesson", l, <<>>)
  \/ \E c \in commands : CmdSetup(c)
  \/ \E c \in commands : CmdExists(c)
  \/ \E c \in commands : CmdFetch(c)
  \/ \E c \in commands : CmdWrite(c)
  \/ \E c \in commands : CmdTrack(c)

SpecIdle == InitIdle /\ [][NextIdle]_vars

\* The debounce under fair scheduling: a timeout that is set and not cleared
\* runs its callback, and readFile, getDocs and updateDoc/addDoc complete.
\* The session, once started, stays; the user signs in and out.
InitLive ==
  InitWith({"l1"}, LessonPaths["l1"], {<<"a">>}, {"timer"}, Users \cup {NoUser})

NextLive ==
  \/ \E p \in spellings, c \in typed : UserEdit(p, c)
  \/ \E p \in spellings : onDidSaveTextDocument(p)
  \/ TimerFire
  \/ \E push \in pushes : PushRead(push)
  \/ \E push \in pushes : PushQuery(push)
  \/ \E push \in pushes : PushWrite(push)
  \/ \E u \in Users : SignIn(u)
  \/ SignOut
  \/ \E l \in lessons : StartCommand("lesson", l, <<>>)
  \/ \E c \in commands : CmdSetup(c)
  \/ \E c \in commands : CmdExists(c)
  \/ \E c \in commands : CmdFetch(c)
  \/ \E c \in commands : CmdWrite(c)
  \/ \E c \in commands : CmdTrack(c)

SpecLive ==
  /\ InitLive /\ [][NextLive]_vars
  /\ WF_vars(TimerFire)
  /\ WF_vars(\E push \in pushes : PushRead(push))
  /\ WF_vars(\E push \in pushes : PushQuery(push))
  /\ WF_vars(\E push \in pushes : PushWrite(push))

\* A single save: the exercise file of l1 holds its template until the user
\* saves it once with other content; nothing else changes the file.
InitSave ==
  InitWith({"l1"}, LessonPaths["l1"], {<<"a">>}, {"timer", "manual", "saved", "failed"},
           Users)

Unsaved(filePath, content) ==
  /\ ToLowerCase(filePath) \in DOMAIN files
  /\ files[ToLowerCase(filePath)] # content

NextSave ==
  \/ \E p \in spellings, c \in typed : Unsaved(p, c) /\ SaveDocument(p, c)
  \/ TimerFire
  \/ WorkspaceFoldersChanged
  \/ \E push \in pushes : PushRead(push)
  \/ \E push \in pushes : PushQuery(push)
  \/ \E push \in pushes : PushWrite(push)
  \/ \E push \in pushes : PushFail(push)
  \/ \E l \in lessons : StartCommand("lesson", l, <<>>)
  \/ \E c \in commands : CmdSetup(c)
  \/ \E c \in commands : CmdExists(c)
  \/ \E c \in commands : CmdFetch(c)
  \/ \E c \in commands : CmdWrite(c)
  \/ \E c \in commands : CmdTrack(c)

SpecSave == InitSave /\ [][NextSave]_vars

\* The tracker alone: every change event carries up to MaxBatch insertions,
\* for the exercise file of l1 or for another file.  The insertions of one
\* behaviour are one text of Texts, a single letter and the block of 50.
InitClassify ==
  \E t \in Texts :
    InitWith({}, LessonPaths["l1"] \cup {OtherFile}, {t, <<"a">>, PastedBlock},
             {"changed"}, Users)

NextClassify ==
  \E p \in spellings, contentChanges \in SeqsUpTo(typed, MaxBatch), now \in Times :
    onDidChangeTextDocument(p, contentChanges, now)

SpecClassify == InitClassify /\ [][NextClassify]_vars

----------------------------------------------------------------------------
(* Properties *)

\* The tracker with the pushes that take its snapshots: the user types a
\* letter or pastes three into the document of the exercise file of l1 and
\* saves the document.
InitMetrics ==
  InitWith({"l1"}, LessonPaths["l1"], {<<"a">>, <<"a", "a", "a">>},
           {"snapshot", "clock", "tally"}, Users)

NextMetrics ==
  \/ \E p \in spellings : onDidSaveTextDocument(p)
  \/ \E push \in pushes : PushRead(push)
  \/ \E push \in pushes : PushQuery(push)
  \/ \E push \in pushes : PushWrite(push)
  \/ \E push \in pushes : PushFail(push)
  \/ \E l \in lessons : StartCommand("lesson", l, <<>>)
  \/ \E c \in commands : CmdSetup(c)
  \/ \E c \in commands : CmdExists(c)
  \/ \E c \in commands : CmdFetch(c)
  \/ \E c \in commands : CmdWrite(c)
  \/ \E c \in commands : CmdTrack(c)
  \/ \E p \in spellings, contentChanges \in SeqsUpTo(typed, MaxBatch), now \in Times :
       onDidChangeTextDocument(p, contentChanges, now)

SpecMetrics == InitMetrics /\ [][NextMetrics]_vars

----------------------------------------------------------------------------
(* Properties *)

\* C1: for every file path at most one push is executing at any moment, and
\* the path is marked in flight for as long as its push executes; a timer
\* fire or a manual sync is skipped only when a push of the same path has
\* not completed, and the skipped trigger starts no push of its own (so no
\* second upsert).
C1_MutualExclusion ==
  /\ \A a, b \in pushes : a.filePath = b.filePath => a = b
  /\ \A a \in pushes : a.filePath \in syncInProgress
  /\ (last.op \in {"timer", "manual"} /\ last.res = "skipped")
        => \E a \in pushes : a.filePath = last.path

\* a manual sync was skipped while the push a timer started is at its upsert
C1_SkippedWhileInFlight ==
  /\ last.op = "manual" /\ last.res = "skipped"
  /\ \E a \in pushes : a.filePath = last.path /\ a.fromTimer /\ a.pc \in {"update", "add"}

\* C2: the change events of one burst (each arriving while a timer of the
\* path is still scheduled, so less than the delay after the previous one)
\* start at most one push.
C2_OnePushPerBurst == \A p \in DOMAIN burst : burst[p] <= 1

\* C3: each path has at most one live timer, and every live timer is the one
\* the pendingSaves entry of its path refers to.
C3_OneLiveTimer ==
  /\ \A i, j \in 1..Len(timers) : timers[i].filePath = timers[j].filePath => i = j
  /\ \A i \in 1..Len(timers) :
        /\ timers[i].filePath \in DOMAIN pendingSaves
        /\ pendingSaves[timers[i].filePath] = timers[i].id

\* C4: when createExerciseFile has returned and the answer it fetched exists,
\* the local file holds exactly the content of that answer, the empty
\* content included.
C4_RoundTrip ==
  (last.op = "materialized" /\ last.res.fetched # <<>>)
    => files[ToLowerCase(last.path)] = last.res.fetched[1].answer

\* C5: a createExerciseFile that returns leaves the content of every file
\* for which a debounce timer is pending or a push is in flight as it was.
C5_InProgressWorkKept ==
  [][ last'.op = "materialized" =>
        \A key \in DOMAIN files :
          ( \/ \E i \in 1..Len(timers) : ToLowerCase(timers[i].filePath) = key
            \/ \E a \in pushes : ToLowerCase(a.filePath) = key )
          => files'[key] = files[key] ]_vars

\* C6: a createExerciseFile that returns leaves the content of every file
\* that existed as it was.
C6_NeverOverwritten ==
  [][ last'.op = "materialized" =>
        \A key \in DOMAIN files : files'[key] = files[key] ]_vars

\* C7: a createExerciseFile that found the local file and fetched no answer
\* returns without a write and leaves every file as it was, at every opening.
C7_NoRemoteRecordIdempotent ==
  [][ (last'.op = "materialized" /\ last'.res.fileExists /\ last'.res.fetched = <<>>)
        => (~last'.res.wrote /\ files' = files) ]_vars

\* an edited file was opened again with no answer in the store and was kept
C7_EditedFileKept ==
  /\ last.op = "materialized" /\ last.res.fileExists /\ last.res.fetched = <<>>
  /\ ~last.res.wrote
  /\ files[ToLowerCase(last.path)] = <<"a">>

\* C8: a createExerciseFile that found no local file and fetched no answer
\* writes the starterValue when there is one and otherwise the template with
\* '//' for java, csharp, typescript and javascript and '#' for python and
\* for every other language; the file's extension is the one of the
\* language, 'txt' for every language outside the five.
C8_StarterOrTemplate ==
  (last.op = "materialized" /\ ~last.res.fileExists /\ last.res.fetched = <<>>) =>
    LET section == last.res.section
        key == ToLowerCase(LanguageOf(section))
        token == IF key \in {Java, CSharp, TypeScript, JavaScript}
                   THEN <<"/","/">> ELSE <<"#">>
        template ==
          token \o <<" ","E","x","e","r","c","i","s","e",":"," ">> \o section.title
            \o <<"\n">> \o token
            \o <<" ","T","O","D","O",":"," ","I","m","p","l","e","m","e","n","t"," ",
                  "y","o","u","r"," ","s","o","l","u","t","i","o","n"," ",
                  "h","e","r","e","\n","\n">>
        extension == CASE key = Python     -> <<"p","y">>
                       [] key = Java       -> <<"j","a","v","a">>
                       [] key = CSharp     -> <<"c","s">>
                       [] key = TypeScript -> <<"t","s">>
                       [] key = JavaScript -> <<"j","s">>
                       [] OTHER            -> <<"t","x","t">>
    IN
    /\ last.res.wrote
    /\ files[ToLowerCase(last.path)] =
         IF section.starterValue # <<>> THEN section.starterValue ELSE template
    /\ PathExtension(last.path) = extension

\* C9: the answer collection holds at most one document per (sectionId, userId).
C9_OneRecordPerKey ==
  \A i, j \in 1..Len(records) :
    (records[i].sectionId = records[j].sectionId /\ records[i].userId = records[j].userId)
      => i = j

\* C10: a path is in the in-flight set only while a push of it is executing,
\* and the path of a push that has just failed is not in the set.
C10_InFlightOnlyWhileExecuting ==
  /\ \A p \in syncInProgress : \E a \in pushes : a.filePath = p
  /\ last.op = "failed" => last.path \notin syncInProgress

\* a push failed at its upsert and its path is marked no longer
C10_FailedUpsertUnmarked ==
  /\ last.op = "failed" /\ last.res \in {"update", "add"}
  /\ last.path \notin syncInProgress

\* C11: when a push saves after a push that was started later than it has
\* saved, the answer the store holds for its (sectionId, userId) is still the
\* content the later started push had read: the older push does not
\* overwrite it.
C11_NoOutOfOrderWrite ==
  (last.op = "saved" /\ last.res.newer # <<>>) =>
    getStudentAnswer(last.res.section, last.res.userId)[1].answer = last.res.newer[1]

\* C12: a timer that was set before the session was discarded (stopWatching,
\* or trackLesson with another course) has no effect afterwards: when it
\* fires it starts no push and leaves the timer map as it was.
C12_StaleTimerHasNoEffect ==
  [][ (timers # <<>> /\ Head(timers).stale /\ last'.op = "timer")
        => (pushes' = pushes /\ pendingSaves' = pendingSaves) ]_vars

\* C13: every step of a push (its start by a timer or a manual sync, a
\* skipped or refused trigger, the read, the query, the upsert, a failure)
\* leaves every local file as it was.
C13_PushNeverWritesFiles ==
  [][ ({q.pid : q \in pushes'} # {q.pid : q \in pushes}
         \/ (\E q \in pushes : \E x \in pushes' : x.pid = q.pid /\ x.pc # q.pc)
         \/ last'.op \in {"timer", "manual", "saved", "failed"})
        => files' = files ]_vars

\* a push has saved the content the user gave the file, and the file holds it
C13_SavedAndFileKept ==
  /\ last.op = "saved" /\ last.res.content = <<"a">>
  /\ files[ToLowerCase(last.path)] = <<"a">>

C15_SkippedEditNotDelivered ==
  [][ /\ (last'.op = "timer" /\ last'.res = "skipped") =>
           /\ timers' = Tail(timers)
           /\ last'.path \notin DOMAIN pendingSaves'
           /\ records' = records
           /\ \A q \in pushes' : \E x \in pushes : x.pid = q.pid /\ x.pc = q.pc
      /\ (timers = <<>> /\ pushes = {}) =>
           /\ records' = records
           /\ pushes' # {} => last'.op = "manual"
           /\ timers' # <<>> => (pushes' = {} /\ last'.op \notin {"timer", "manual", "saved", "failed"}) ]_vars

\* the run of the claim: a push has saved what it had read, a timer of its
\* path was skipped while it was in flight, no timer is pending and no push
\* is in flight, and the file holds an edit the remote record does not
C15_EditDropped ==
  /\ last.op = "saved" /\ last.res.blocked
  /\ timers = <<>> /\ pushes = {}
  /\ files[ToLowerCase(last.path)] = <<"a">>
  /\ last.res.content # <<"a">>
  /\ \A d \in DOMAIN records : records[d].answer # <<"a">>

C17_WindowsDoNotOverlap ==
  /\ \A key \in DOMAIN tally :
       tally[key].seen - tally[key].counted
         = IF key \in DOMAIN metrics
             THEN metrics[key].keystrokeCount + metrics[key].pasteCount
             ELSE 0
  /\ last.op = "snapshot" =>
       /\ last.res.inputMetrics.keystrokeCount + last.res.inputMetrics.pasteCount
            = last.res.pending
       /\ ToLowerCase(last.path) \notin DOMAIN metrics
       /\ last.res.pending = 0 =>
            /\ last.res.inputMetrics.keystrokeCount = 0
            /\ last.res.inputMetrics.pasteCount = 0
            /\ last.res.inputMetrics.pasteCharCount = 0
            /\ last.res.inputMetrics.editDurationMs = 0

\* a snapshot of zeros, taken after an earlier snapshot had counted changes
\* and no change came in between
C17_EmptyWindow ==
  /\ last.op = "snapshot" /\ last.res.pending = 0
  /\ TallyOf(last.path).counted > 0
  /\ last.res.inputMetrics.keystrokeCount = 0
  /\ last.res.inputMetrics.editDurationMs = 0

\* C18: two sections of one lesson whose orderIndex differs get different
\* paths, also after lower-casing, so the session map holds both, each
\* under its own key.
C18_PathInjective ==
  (last.op = "tracked" /\ last.res[1].orderIndex # last.res[2].orderIndex) =>
    LET pathA == ExercisePath(last.path, last.res[1])
        pathB == ExercisePath(last.path, last.res[2])
    IN /\ pathA # pathB
       /\ ToLowerCase(pathA) # ToLowerCase(pathB)
       /\ DOMAIN fileToSectionMap = {ToLowerCase(pathA), ToLowerCase(pathB)}
       /\ fileToSectionMap[ToLowerCase(pathA)] = last.res[1]
       /\ fileToSectionMap[ToLowerCase(pathB)] = last.res[2]

\* section 1 titled '1a' and section 11 titled 'a', same language, are
\* tracked under two keys
C18_DigitsOfIndexAndTitle ==
  /\ last.op = "tracked"
  /\ last.res[1].orderIndex = 1 /\ last.res[1].title = <<"1", "a">>
  /\ last.res[2].orderIndex = 11 /\ last.res[2].title = <<"a">>
  /\ last.res[1].language = last.res[2].language
  /\ Cardinality(DOMAIN fileToSectionMap) = 2

\* C19: a manual sync leaves every timer and the timer map as they are; it
\* starts a push in the same step exactly when the session is active, the
\* path is mapped, no push of the path is in flight and a user is signed in;
\* otherwise, and always without an active session, it changes nothing.
C19_ManualSyncBypassesDebounce ==
  [][ last'.op = "manual" =>
        LET filePath == last'.path
            active == DOMAIN fileToSectionMap # {} /\ currentCourseId # "null"
            starts == /\ active
                      /\ ToLowerCase(filePath) \in DOMAIN fileToSectionMap
                      /\ filePath \notin syncInProgress
                      /\ userId # NoUser
        IN /\ timers' = timers
           /\ pendingSaves' = pendingSaves
           /\ (last'.res = "started") = starts
           /\ (last'.res = "inactive") = ~active
           /\ starts =>
                /\ syncInProgress' = syncInProgress \cup {filePath}
                /\ \E q \in pushes' :
                     /\ pushes' = pushes \cup {q} /\ q \notin pushes
                     /\ q.filePath = filePath /\ q.pc = "read"
                     /\ q.section = fileToSectionMap[ToLowerCase(filePath)]
           /\ ~starts => (pushes' = pushes /\ syncInProgress' = syncInProgress) ]_vars

\* a manual sync has started a push while a debounce timer of the path is
\* pending
C19_StartedBesidePendingTimer ==
  /\ last.op = "manual" /\ last.res = "started"
  /\ last.path \in DOMAIN pendingSaves
  /\ \E i \in 1..Len(timers) : timers[i].filePath = last.path
  /\ last.path \in syncInProgress

\* C20: a write of the Materializer schedules no debounce timer: the step
\* in which it writes a file leaves the timers and the timer map as they
\* are.
C20_OwnWritesNotObserved ==
  [][ (last'.op = "materialized" /\ last'.res.wrote) =>
        (timers' = timers /\ pendingSaves' = pendingSaves) ]_vars

\* C21: when the write of an exercise file fails during setupLessonFiles
\* and the lesson has further exercise files, the command goes on with the
\* next one; the failure changes no file and no remote record.
C21_SiblingsStillMaterialized ==
  [][ \A c \in commands :
        (/\ c.pc = "write" /\ c.stage = "setup"
         /\ c.idx < Len(CodeSections(c.lessonId))
         /\ last'.op = "cmdfailed" /\ c \notin commands')
        => /\ \E d \in commands' : d.cid = c.cid /\ d.stage = "setup" /\ d.idx = c.idx + 1
           /\ files' = files /\ records' = records ]_vars

C23_UnmappedPathNoOp ==
  [][ (/\ last'.op \in {"timer", "manual"}
       /\ ToLowerCase(last'.path) \notin DOMAIN fileToSectionMap)
      => /\ last'.res \in {"untracked", "inactive"}
         /\ pushes' = pushes
         /\ syncInProgress' = syncInProgress
         /\ records' = records
         /\ files' = files
         /\ metrics' = metrics ]_vars

\* a timer has fired for a path the map no longer holds while the tracker
\* holds keystrokes of that file
C23_UntrackedWithMetrics ==
  /\ last.op = "timer" /\ last.res = "untracked"
  /\ ToLowerCase(last.path) \in DOMAIN metrics
  /\ metrics[ToLowerCase(last.path)].keystrokeCount > 0
  /\ last.path \notin syncInProgress

\* C24: every entry of the identity map belongs to a lesson of the current
\* course; tracking a lesson of the current course keeps every entry there
\* was and adds the code sections of the lesson, and tracking a lesson of
\* another course leaves only entries of that lesson.
C24_SessionScope ==
  [][ /\ \A key \in DOMAIN fileToSectionMap' :
           Catalog[fileToSectionMap'[key].lessonId].courseId = currentCourseId'
      /\ \A c \in commands :
           (c.pc = "track" /\ c \notin commands') =>
             LET lesson == Catalog[c.lessonId] IN
             /\ currentCourseId' = lesson.courseId
             /\ \A i \in 1..Len(CodeSections(c.lessonId)) :
                  LET key == ToLowerCase(ExercisePath(lesson.exercisesPath,
                                                      CodeSections(c.lessonId)[i]))
                  IN key \in DOMAIN fileToSectionMap'
                     /\ fileToSectionMap'[key] = CodeSections(c.lessonId)[i]
             /\ currentCourseId \in {"null", lesson.courseId} =>
                  \A key \in DOMAIN fileToSectionMap :
                    key \in DOMAIN fileToSectionMap'
                      /\ fileToSectionMap'[key] = fileToSectionMap[key]
             /\ currentCourseId \notin {"null", lesson.courseId} =>
                  \A key \in DOMAIN fileToSectionMap' :
                    fileToSectionMap'[key].lessonId = c.lessonId ]_vars

\* the session of course c1 holds the exercises of both of its lessons
C24_TwoLessonsOfOneCourse ==
  /\ currentCourseId = "c1"
  /\ trackedLessons = {"l1", "l3"}
  /\ {fileToSectionMap[key].id : key \in DOMAIN fileToSectionMap} = {"s1", "s3", "s4"}

\* C25: when a push ends with its upsert, the record of its section and
\* user holds the content and the metrics snapshot of the push; an existing
\* record is updated in place, and a new one carries the lessonId of the
\* section and the courseId.
C25_UpsertResult ==
  [][ \A push \in pushes :
        (push.pc \in {"update", "add"} /\ push \notin pushes') =>
          LET rec == IF push.pc = "update" THEN records'[push.docRef]
                                           ELSE records'[Len(records')]
          IN /\ rec.sectionId = push.section.id /\ rec.userId = push.userId
             /\ rec.answer = push.content
             /\ "inputMetrics" \in DOMAIN rec /\ rec.inputMetrics = push.inputMetrics
             /\ push.pc = "update" => Len(records') = Len(records)
             /\ push.pc = "add" =>
                  /\ Len(records') = Len(records) + 1
                  /\ rec.lessonId = push.section.lessonId
                  /\ rec.courseId = push.courseId ]_vars

\* C26: a step that ends or switches the session leaves every suspended
\* push and the in-flight set as they are; every suspended push keeps its
\* in-flight mark, so a sync of a mapped path that is in flight is skipped;
\* and a push that ends with its upsert stores its content and removes its
\* mark, whatever became of the session.
C26_PushOutlivesSession ==
  [][ /\ (currentCourseId # "null" /\ currentCourseId' # currentCourseId) =>
           (pushes' = pushes /\ syncInProgress' = syncInProgress)
      /\ \A push \in pushes' : push.filePath \in syncInProgress'
      /\ (/\ last'.op \in {"timer", "manual"}
          /\ last'.res # "inactive"
          /\ ToLowerCase(last'.path) \in DOMAIN fileToSectionMap
          /\ \E push \in pushes : push.filePath = last'.path) =>
           (last'.res = "skipped" /\ pushes' = pushes)
      /\ \A push \in pushes :
           (push.pc \in {"update", "add"} /\ push \notin pushes') =>
             /\ getStudentAnswer(push.section.id, push.userId)' # <<>>
             /\ \E i \in 1..Len(records') :
                  /\ records'[i].sectionId = push.section.id
                  /\ records'[i].answer = push.content
             /\ push.filePath \notin syncInProgress' ]_vars

\* a push of the exercise of l1 has stored its content after the session
\* had switched to course c2
C26_SavedAfterSwitch ==
  /\ last.op = "saved" /\ last.res.section = "s1"
  /\ currentCourseId = "c2"
  /\ syncInProgress = {}
  /\ getStudentAnswer("s1", "u1") # <<>>

\* C27: at most one push of an exercise is executing at any moment, under
\* whatever spellings of its path the pushes were triggered.
C27_OnePushPerExercise ==
  \A p \in pushes, q \in pushes :
    (p.section.id = q.section.id /\ p.userId = q.userId) => p = q

\* C28: after the single save of a tracked exercise file no upsert uploads
\* content that the record of the exercise already holds, so the save hook's
\* push and the debounced push of that save do not both upload it.
C28_OneUpsertPerSave ==
  [][\A push \in pushes :
       (push.pc \in {"update", "add"} /\ push \notin pushes') =>
         ~\E i \in 1..Len(records) :
            /\ records[i].sectionId = push.section.id
            /\ records[i].userId = push.userId
            /\ records[i].answer = push.content]_vars

\* C29: a timer-driven or manual sync that ends at the in-flight guard or at
\* the not-signed-in return leaves the input metrics of every file and the
\* records as they are, and after the not-signed-in return the path is not
\* in the in-flight set.
C29_EarlyReturnKeepsMetrics ==
  [][ (last'.op \in {"timer", "manual"} /\ last'.res \in {"skipped", "nouser"})
      => /\ metrics' = metrics
         /\ tally' = tally
         /\ records' = records
         /\ pushes' = pushes
         /\ last'.res = "nouser" => last'.path \notin syncInProgress' ]_vars

\* a sync has just ended at the not-signed-in return while the tracker
\* holds keystrokes of the file
C29_NoUserWithMetrics ==
  /\ last.op \in {"timer", "manual"} /\ last.res = "nouser"
  /\ ToLowerCase(last.path) \in DOMAIN metrics
  /\ metrics[ToLowerCase(last.path)].keystrokeCount > 0
  /\ last.path \notin syncInProgress

====
